---------------------------- MODULE Spec2Model ----------------------------
(***************************************************************************)
(* A model of GCashPDFParser (src/src/parsers/GCashPDFParser.ts): the      *)
(* parse() pipeline that turns the positioned text fragments of a PDF      *)
(* statement into Transaction records, and toCSV().                        *)
(*                                                                         *)
(* Strings are TLA+ strings; TLC evaluates Len, \o and SubSeq on them, so  *)
(* includes(), trim(), join() and the two regular expressions are computed *)
(* character by character as the JavaScript does.                          *)
(*                                                                         *)
(* Coordinates are integers.  A column boundary is the midpoint of two     *)
(* centres, so minX and maxX are kept doubled (in half units): a fragment  *)
(* at x lies in [minX, maxX) iff minX <= 2*x < maxX.                       *)
(***************************************************************************)
EXTENDS Integers, Sequences, FiniteSets, TLC

VARIABLES
    pdfData,          \* the decoded document: a sequence of pages, each the
                      \* sequence of text items getTextContent() returns
    debug,            \* options.debug
    transactions,     \* this.transactions
    pageTexts,        \* this.pageTexts
    columnPositions,  \* this.columnPositions
    numericEntries,   \* this.numericEntries
    pc,               \* per parse() call: where the call is suspended
    pageNo,           \* per parse() call: the loop variable i
    headerEntries,    \* per parse() call: the local headerEntries
    result,           \* per parse() call: what the promise settled with
    console,          \* the console.warn messages written so far
    csv,              \* what toCSV() last returned
    rowLog            \* history: every clustered row handled by
                      \* extractNumericEntriesFromLineItems, with its outcome

vars == <<pdfData, debug, transactions, pageTexts, columnPositions,
          numericEntries, pc, pageNo, headerEntries, result, console, csv,
          rowLog>>

-----------------------------------------------------------------------------
(* Bounds of the model *)

\* rows of a generated statement (over all its pages)
MaxRows == 5
\* rows the generator puts on one page
RowsPerPage == 2

-----------------------------------------------------------------------------
(* Strings *)

Min(S) == CHOOSE m \in S : \A n \in S : m <= n

\* String.prototype.charAt, from 1: the empty string outside the string
CharAt(s, i) == IF i \in 1..Len(s) THEN SubSeq(s, i, i) ELSE ""

IsDigit(c) == c \in {"0", "1", "2", "3", "4", "5", "6", "7", "8", "9"}

\* the characters \s matches that the model's texts can hold
IsSpace(c) == c \in {" ", "\t", "\n", "\r"}

\* the characters . does not match
IsLineTerminator(c) == c \in {"\n", "\r"}

\* String.prototype.includes
Includes(s, sub) ==
    \E i \in 1..(Len(s) - Len(sub) + 1) : SubSeq(s, i, i + Len(sub) - 1) = sub

RECURSIVE TrimStart(_)
TrimStart(s) ==
    IF s # "" /\ IsSpace(CharAt(s, 1)) THEN TrimStart(SubSeq(s, 2, Len(s)))
    ELSE s

RECURSIVE TrimEnd(_)
TrimEnd(s) ==
    IF s # "" /\ IsSpace(CharAt(s, Len(s))) THEN TrimEnd(SubSeq(s, 1, Len(s) - 1))
    ELSE s

\* String.prototype.trim
Trim(s) == TrimEnd(TrimStart(s))

\* Array.prototype.join on an array of strings
RECURSIVE Join(_, _)
Join(strs, sep) ==
    IF strs = <<>> THEN ""
    ELSE IF Len(strs) = 1 THEN strs[1]
    ELSE strs[1] \o sep \o Join(Tail(strs), sep)

\* String.prototype.split on a one-character separator
RECURSIVE Split(_, _)
Split(s, sep) ==
    LET hits == {i \in 1..Len(s) : CharAt(s, i) = sep}
    IN  IF hits = {} THEN <<s>>
        ELSE <<SubSeq(s, 1, Min(hits) - 1)>>
                 \o Split(SubSeq(s, Min(hits) + 1, Len(s)), sep)

\* \d{n} at position p
DigitsAt(s, p, n) ==
    /\ p + n - 1 <= Len(s)
    /\ \A j \in p..(p + n - 1) : IsDigit(CharAt(s, j))

\* \s{n} at position p
SpacesAt(s, p, n) ==
    /\ p + n - 1 <= Len(s)
    /\ \A j \in p..(p + n - 1) : IsSpace(CharAt(s, j))

\* the position after the longest run of \s starting at p (\s+ is greedy,
\* and what follows it in the pattern is never whitespace)
AfterSpaces(s, p) ==
    Min({j \in p..(Len(s) + 1) : j = Len(s) + 1 \/ ~IsSpace(CharAt(s, j))})

\* /\d{4}-\d{2}-\d{2}\s+\d{1,2}:\d{2}\s+[AP]M/ anchored at position p: the
\* position of the match's last character, or 0 when there is no match.
\* Each quantified piece is followed by a character it cannot match, so a
\* start position has at most one match.
\* [AP]M at position t
MeridiemEnd(s, t) ==
    IF CharAt(s, t) \in {"A", "P"} /\ CharAt(s, t + 1) = "M" THEN t + 1 ELSE 0

\* \d{2}\s+[AP]M at position r
MinuteEnd(s, r) ==
    IF DigitsAt(s, r, 2) /\ SpacesAt(s, r + 2, 1)
    THEN MeridiemEnd(s, AfterSpaces(s, r + 2))
    ELSE 0

\* \d{1,2}:\d{2}\s+[AP]M at position q: two digits are tried first
TimeEnd(s, q) ==
    IF DigitsAt(s, q, 2) /\ CharAt(s, q + 2) = ":" THEN MinuteEnd(s, q + 3)
    ELSE IF DigitsAt(s, q, 1) /\ CharAt(s, q + 1) = ":" THEN MinuteEnd(s, q + 2)
    ELSE 0

DateTimeEnd(s, p) ==
    IF /\ DigitsAt(s, p, 4)
       /\ CharAt(s, p + 4) = "-"
       /\ DigitsAt(s, p + 5, 2)
       /\ CharAt(s, p + 7) = "-"
       /\ DigitsAt(s, p + 8, 2)
       /\ SpacesAt(s, p + 10, 1)
    THEN TimeEnd(s, AfterSpaces(s, p + 10))
    ELSE 0

\* dateTimePattern.test(lineText)
DateTimeTest(s) == \E p \in 1..Len(s) : DateTimeEnd(s, p) # 0

\* \s{3}(.+?)\s{3}(\d{13}) after a date and time that ends at e (0: none):
\* the lengths k of group 2 for which the rest of the pattern matches
LengthsAfter(s, e) ==
    IF e = 0 \/ ~SpacesAt(s, e + 1, 3) THEN {}
    ELSE {k \in 1..(Len(s) - e - 3) :
             /\ SpacesAt(s, e + 4 + k, 3)
             /\ DigitsAt(s, e + 7 + k, 13)
             /\ \A j \in (e + 4)..(e + 3 + k) : ~IsLineTerminator(CharAt(s, j))}

\* The header pattern
\*   /(dateTime)\s{3}(.+?)\s{3}(\d{13})/
\* anchored at position p: the lengths k of group 2 for which the pattern
\* matches.  .+? is lazy, so the match takes the smallest.
DescriptionLengths(s, p) == LengthsAfter(s, DateTimeEnd(s, p))

\* MatchGroups with group 3 taking the whole run of digits (\d{13,})
MatchGroups_WholeRun(s, p, e, k) ==
    [dateTime    |-> SubSeq(s, p, e),
     description |-> SubSeq(s, e + 4, e + 3 + k),
     referenceNo |->
         SubSeq(s, e + 7 + k,
                Min({j \in (e + 19 + k)..Len(s) : ~IsDigit(CharAt(s, j + 1))})),
     last        |-> Min({j \in (e + 19 + k)..Len(s) : ~IsDigit(CharAt(s, j + 1))})]

\* the groups of the match from p whose date and time ends at e and whose
\* group 2 has length k, and the position of its last character
MatchGroups(s, p, e, k) ==
    [dateTime    |-> SubSeq(s, p, e),
     description |-> SubSeq(s, e + 4, e + 3 + k),
     referenceNo |-> SubSeq(s, e + 7 + k, e + 19 + k),
     last        |-> e + 19 + k]

\* the match anchored at p, which DescriptionLengths(s, p) # {} guarantees
HeaderMatchAt(s, p) ==
    MatchGroups(s, p, DateTimeEnd(s, p), Min(DescriptionLengths(s, p)))


-----------------------------------------------------------------------------
(* Arrays *)

\* Array.prototype.filter
Filter(seq, Test(_)) == SelectSeq(seq, Test)

\* Array.prototype.sort with a comparator that is the difference of an
\* integer key: ascending by Key, stable (elements with equal keys keep
\* their order)
SortAscBy(seq, Key(_)) ==
    LET rank == [i \in 1..Len(seq) |->
                    1 + Cardinality({j \in 1..Len(seq) :
                            \/ Key(seq[j]) < Key(seq[i])
                            \/ Key(seq[j]) = Key(seq[i]) /\ j < i})]
    IN  [r \in 1..Len(seq) |-> seq[CHOOSE i \in 1..Len(seq) : rank[i] = r]]

\* items.map((item) => item.str)
Strs(items) == [i \in 1..Len(items) |-> items[i].str]

Abs(n) == IF n < 0 THEN -n ELSE n

RECURSIVE Concat(_)
Concat(seqs) == IF seqs = <<>> THEN <<>> ELSE Head(seqs) \o Concat(Tail(seqs))

-----------------------------------------------------------------------------
(* The Column Model *)

\* Number.POSITIVE_INFINITY, in the doubled units of maxX: above twice any
\* coordinate of the model
POSITIVE_INFINITY == 1000000

\* the names identifyColumnPositions looks for in a header row's fragments
HeaderNames ==
    {"Date and Time", "Description", "Reference No", "Debit", "Credit", "Balance"}

\* the test of items.findIndex: Description is not among its names
StartsHeaderRow(item) ==
    \/ Includes(item.str, "Date and Time")
    \/ Includes(item.str, "Reference No")
    \/ Includes(item.str, "Debit")
    \/ Includes(item.str, "Credit")
    \/ Includes(item.str, "Balance")

\* the layout used when page 1 has no header row
DefaultColumns ==
    << [name |-> "Date and Time", x |-> 0],
       [name |-> "Description",   x |-> 150],
       [name |-> "Reference No",  x |-> 400],
       [name |-> "Debit",         x |-> 500],
       [name |-> "Credit",        x |-> 580],
       [name |-> "Balance",       x |-> 660] >>

\* whether items.findIndex finds a header row
HasHeaderRow(items) == \E i \in 1..Len(items) : StartsHeaderRow(items[i])

\* the header tolerance of identifyColumnPositions
HeaderTolerance == 2

\* the items.filter of identifyColumnPositions
HeaderItems(items, headerRowIndex) ==
    LET InRow(item) ==
            /\ Abs(item.y - items[headerRowIndex].y) < HeaderTolerance
            /\ \E header \in HeaderNames : Includes(item.str, header)
    IN  Filter(items, InRow)

\* the headerItems.map of identifyColumnPositions
ColumnsOf(headerItems) ==
    [i \in 1..Len(headerItems) |->
        [name |-> Trim(headerItems[i].str), x |-> headerItems[i].x]]

\* identifyColumnPositions without the else branch: no header row leaves
\* this.columnPositions empty
identifyColumnPositions_NoFallback(items) ==
    IF HasHeaderRow(items)
    THEN ColumnsOf(HeaderItems(items,
             Min({i \in 1..Len(items) : StartsHeaderRow(items[i])})))
    ELSE <<>>

\* identifyColumnPositions: this.columnPositions, before the boundaries
identifyColumnPositions(items) ==
    IF HasHeaderRow(items)
    THEN ColumnsOf(HeaderItems(items,
             Min({i \in 1..Len(items) : StartsHeaderRow(items[i])})))
    ELSE DefaultColumns

ColumnX(col) == col.x

\* boundaries[i] of computeColumnBoundaries, doubled:
\* current.x + (next.x - current.x) / 2
Boundary(sorted, i) == 2 * sorted[i].x + (sorted[i + 1].x - sorted[i].x)

\* the forEach of computeColumnBoundaries over the sorted columns
WithBoundaries(sorted) ==
    [idx \in 1..Len(sorted) |->
        [name |-> sorted[idx].name,
         x    |-> sorted[idx].x,
         minX |-> IF idx = 1 THEN 0 ELSE Boundary(sorted, idx - 1),
         maxX |-> IF idx = Len(sorted) THEN POSITIVE_INFINITY
                                       ELSE Boundary(sorted, idx)]]

\* computeColumnBoundaries without the sort
computeColumnBoundaries_Unsorted(cols) == WithBoundaries(cols)

\* computeColumnBoundaries: the columns sorted by x, each with its interval
computeColumnBoundaries(cols) == WithBoundaries(SortAscBy(cols, ColumnX))

-----------------------------------------------------------------------------
(* Row clustering and the numeric fields *)

\* the vertical tolerance of a row
tolerance == 5

\* the split point when the Column Model gives none
DefaultDebitX == 500

\* the sort key of a.y - b.y, which puts the bottom row first
NegY_Ascending(item) == item.y

\* the sort key of b.y - a.y
NegY(item) == -item.y
ItemX(item) == item.x

\* ClusterItems with a distance of exactly the tolerance starting a cluster
RECURSIVE ClusterItems_Strict(_, _)
ClusterItems_Strict(sortedItems, clusters) ==
    IF sortedItems = <<>> THEN clusters
    ELSE LET near == {c \in 1..Len(clusters) :
                         Abs(Head(sortedItems).y - clusters[c][1].y) < tolerance}
         IN  ClusterItems_Strict(Tail(sortedItems),
                 IF near # {}
                 THEN [clusters EXCEPT ![Min(near)] = Append(@, Head(sortedItems))]
                 ELSE Append(clusters, <<Head(sortedItems)>>))

\* ClusterItems with the distance taken to the cluster's last item
RECURSIVE ClusterItems_LastMember(_, _)
ClusterItems_LastMember(sortedItems, clusters) ==
    IF sortedItems = <<>> THEN clusters
    ELSE LET near == {c \in 1..Len(clusters) :
                         Abs(Head(sortedItems).y
                                 - clusters[c][Len(clusters[c])].y) <= tolerance}
         IN  ClusterItems_LastMember(Tail(sortedItems),
                 IF near # {}
                 THEN [clusters EXCEPT ![Min(near)] = Append(@, Head(sortedItems))]
                 ELSE Append(clusters, <<Head(sortedItems)>>))

\* the forEach over sortedItems: each item joins the first cluster whose
\* first item is within the tolerance, or starts a cluster
RECURSIVE ClusterItems(_, _)
ClusterItems(sortedItems, clusters) ==
    IF sortedItems = <<>> THEN clusters
    ELSE LET near == {c \in 1..Len(clusters) :
                         Abs(Head(sortedItems).y - clusters[c][1].y) <= tolerance}
         IN  ClusterItems(Tail(sortedItems),
                 IF near # {}
                 THEN [clusters EXCEPT ![Min(near)] = Append(@, Head(sortedItems))]
                 ELSE Append(clusters, <<Head(sortedItems)>>))

\* the clusters.forEach that sorts each cluster by x
SortEach(clusters) ==
    [c \in 1..Len(clusters) |-> SortAscBy(clusters[c], ItemX)]

\* Clusters without the sort by y: the items clustered in extraction order
Clusters_Unsorted(items) == SortEach(ClusterItems(items, <<>>))

\* the clusters of a page, top row first, each sorted by x
Clusters(items) == SortEach(ClusterItems(SortAscBy(items, NegY), <<>>))

\* IsSkippedLine without the test for STARTING BALANCE
IsSkippedLine_NoStartingBalance(lineText) ==
    \/ Includes(lineText, "Date and Time")
    \/ Includes(lineText, "ENDING BALANCE")
    \/ Includes(lineText, "Total Debit")
    \/ Includes(lineText, "Total Credit")
    \/ Trim(lineText) = ""

\* the rows the loop skips as header or summary lines
IsSkippedLine(lineText) ==
    \/ Includes(lineText, "Date and Time")
    \/ Includes(lineText, "STARTING BALANCE")
    \/ Includes(lineText, "ENDING BALANCE")
    \/ Includes(lineText, "Total Debit")
    \/ Includes(lineText, "Total Credit")
    \/ Trim(lineText) = ""

\* whether the loop goes on to read the row's numeric fields
IsAdmitted(lineText) == ~IsSkippedLine(lineText) /\ DateTimeTest(lineText)

\* debitColumn?.minX || 500, doubled: a minX of 0 is falsy
DebitX(cols) ==
    LET named == {i \in 1..Len(cols) : cols[i].name = "Debit"}
    IN  IF named # {} /\ cols[Min(named)].minX # 0
        THEN cols[Min(named)].minX
        ELSE 2 * DefaultDebitX

\* backItems: the items of the row at or right of debitX
BackItems(line, debitX) ==
    LET IsBack(item) == ~(2 * item.x < debitX)
    IN  Filter(line, IsBack)

\* relevantColumns
RelevantColumns(cols) ==
    LET IsRelevant(col) == col.name \in {"Debit", "Credit", "Balance"}
    IN  Filter(cols, IsRelevant)

\* ValuesIn without the test xPos < col.maxX
ValuesIn_NoUpperBound(backItems, relevantColumns, name) ==
    LET Lands(item) ==
            LET hits == {i \in 1..Len(relevantColumns) :
                            2 * item.x >= relevantColumns[i].minX}
            IN  hits # {} /\ relevantColumns[Min(hits)].name = name
    IN  Strs(Filter(backItems, Lands))

\* the texts the backItems.forEach pushes to colValues[name]
ValuesIn(backItems, relevantColumns, name) ==
    LET Lands(item) ==
            LET hits == {i \in 1..Len(relevantColumns) :
                            /\ 2 * item.x >= relevantColumns[i].minX
                            /\ 2 * item.x < relevantColumns[i].maxX}
            IN  hits # {} /\ relevantColumns[Min(hits)].name = name
    IN  Strs(Filter(backItems, Lands))

\* colValues[name] for a row
ColumnValues(line, cols, name) ==
    ValuesIn(BackItems(line, DebitX(cols)), RelevantColumns(cols), name)

\* EntryOf with an entry pushed for every admitted row
EntryOf_Always(lineText, debitStr, creditStr, balanceStr, count) ==
    IF IsAdmitted(lineText)
    THEN << [entryNo |-> count + 1, debit |-> debitStr,
             credit |-> creditStr, balance |-> balanceStr] >>
    ELSE <<>>

\* EntryOf with an entry pushed only when all three fields are non-empty
EntryOf_AllRequired(lineText, debitStr, creditStr, balanceStr, count) ==
    IF /\ IsAdmitted(lineText)
       /\ (debitStr # "" /\ creditStr # "" /\ balanceStr # "")
    THEN << [entryNo |-> count + 1, debit |-> debitStr,
             credit |-> creditStr, balance |-> balanceStr] >>
    ELSE <<>>

\* the end of the loop body: the NumericEntry pushed for a row, as a
\* sequence of zero or one entries numbered after count
EntryOf(lineText, debitStr, creditStr, balanceStr, count) ==
    IF /\ IsAdmitted(lineText)
       /\ (debitStr # "" \/ creditStr # "" \/ balanceStr # "")
    THEN << [entryNo |-> count + 1, debit |-> debitStr,
             credit |-> creditStr, balance |-> balanceStr] >>
    ELSE <<>>

\* the body of the loop over the clusters, for one row
LineEntries(line, cols, count) ==
    EntryOf(Join(Strs(line), " "),
            Trim(Join(ColumnValues(line, cols, "Debit"), " ")),
            Trim(Join(ColumnValues(line, cols, "Credit"), " ")),
            Trim(Join(ColumnValues(line, cols, "Balance"), " ")),
            count)

\* the loop over the clusters: the entries pushed after those in entries
RECURSIVE ExtractLines(_, _, _)
ExtractLines(clusters, cols, entries) ==
    IF clusters = <<>> THEN entries
    ELSE ExtractLines(Tail(clusters), cols,
                      entries \o LineEntries(Head(clusters), cols, Len(entries)))

\* extractNumericEntriesFromLineItems with the count starting at 0 on
\* every page
extractNumericEntriesFromLineItems_CountPerPage(items, cols, entries) ==
    entries \o ExtractLines(Clusters(items), cols, <<>>)

\* extractNumericEntriesFromLineItems: this.numericEntries afterwards
extractNumericEntriesFromLineItems(items, cols, entries) ==
    ExtractLines(Clusters(items), cols, entries)

-----------------------------------------------------------------------------
(* The header fields *)

\* the positions of combinedText at which the header pattern matches
MatchStarts(combinedText) ==
    {p \in 1..Len(combinedText) : DescriptionLengths(combinedText, p) # {}}

RECURSIVE ScanHeaders(_, _, _, _)

\* one turn of the while loop: the entry pushed for a match, and the scan
\* resumed after it
PushMatch(combinedText, starts, match, entryNo) ==
    << [entryNo     |-> entryNo + 1,
        dateTime    |-> Trim(match.dateTime),
        description |-> Trim(match.description),
        referenceNo |-> Trim(match.referenceNo)] >>
    \o ScanHeaders(combinedText, starts, match.last + 1, entryNo + 1)

\* pattern.exec from lastIndex: the leftmost match among those that start
\* at one of the positions left, if any
ExecFrom(combinedText, starts, left, entryNo) ==
    IF left = {} THEN <<>>
    ELSE PushMatch(combinedText, starts,
                   HeaderMatchAt(combinedText, Min(left)), entryNo)

\* the while loop over pattern.exec: the matches from position from on,
\* leftmost first, each search resuming after the previous match; starts
\* are the positions at which the pattern matches
ScanHeaders(combinedText, starts, from, entryNo) ==
    ExecFrom(combinedText, starts, {p \in starts : p >= from}, entryNo)

\* the scan of the whole of combinedText
HeadersOf(combinedText) ==
    ScanHeaders(combinedText, MatchStarts(combinedText), 1, 0)

\* extractHeaderEntriesFromPageTexts
extractHeaderEntriesFromPageTexts(texts) == HeadersOf(Join(texts, "\n"))

-----------------------------------------------------------------------------
(* The merge and the CSV *)

\* Math.min
MathMin(a, b) == IF a < b THEN a ELSE b

\* MergeEntries with the loop stopping one entry short
MergeEntries_OneShort(headers, numerics) ==
    [i \in 1..(MathMin(Len(headers), Len(numerics)) - 1) |->
        [dateTime    |-> headers[i].dateTime,
         description |-> headers[i].description,
         referenceNo |-> headers[i].referenceNo,
         debit       |-> numerics[i].debit,
         credit      |-> numerics[i].credit,
         balance     |-> numerics[i].balance]]

\* MergeEntries with debit and credit taken from each other's field
MergeEntries_SwappedAmounts(headers, numerics) ==
    [i \in 1..MathMin(Len(headers), Len(numerics)) |->
        [dateTime    |-> headers[i].dateTime,
         description |-> headers[i].description,
         referenceNo |-> headers[i].referenceNo,
         debit       |-> numerics[i].credit,
         credit      |-> numerics[i].debit,
         balance     |-> numerics[i].balance]]

\* MergeEntries with header i paired with the numeric entry i from the end
MergeEntries_FromTheEnd(headers, numerics) ==
    [i \in 1..MathMin(Len(headers), Len(numerics)) |->
        [dateTime    |-> headers[i].dateTime,
         description |-> headers[i].description,
         referenceNo |-> headers[i].referenceNo,
         debit       |-> numerics[Len(numerics) + 1 - i].debit,
         credit      |-> numerics[Len(numerics) + 1 - i].credit,
         balance     |-> numerics[Len(numerics) + 1 - i].balance]]

\* the merge loop of parse()
MergeEntries(headers, numerics) ==
    [i \in 1..MathMin(Len(headers), Len(numerics)) |->
        [dateTime    |-> headers[i].dateTime,
         description |-> headers[i].description,
         referenceNo |-> headers[i].referenceNo,
         debit       |-> numerics[i].debit,
         credit      |-> numerics[i].credit,
         balance     |-> numerics[i].balance]]

CsvHeader == "Date and Time,Description,Reference No,Debit,Credit,Balance"

\* CsvLine without the quotes around the fields
CsvLine_Unquoted(t) ==
    t.dateTime \o "," \o t.description \o "," \o t.referenceNo \o ","
        \o t.debit \o "," \o t.credit \o "," \o t.balance \o "\n"

\* the line toCSV appends for a transaction
CsvLine(t) ==
    "\"" \o t.dateTime \o "\",\"" \o t.description \o "\",\""
         \o t.referenceNo \o "\",\"" \o t.debit \o "\",\"" \o t.credit
         \o "\",\"" \o t.balance \o "\"\n"

RECURSIVE CsvLines(_)
CsvLines(txs) ==
    IF txs = <<>> THEN "" ELSE CsvLine(Head(txs)) \o CsvLines(Tail(txs))

\* toCSV without the test for an empty list
toCSV_HeaderOnly(txs) == Trim(CsvHeader \o "\n" \o CsvLines(txs))

\* toCSV
toCSV(txs) ==
    IF Len(txs) = 0 THEN "No transactions found"
    ELSE Trim(CsvHeader \o "\n" \o CsvLines(txs))

-----------------------------------------------------------------------------
(* The documents of the model: what the PDF library decodes *)

Item(str, x, y) == [str |-> str, x |-> x, y |-> y]

Digit(k) == SubSeq("0123456789", (k % 10) + 1, (k % 10) + 1)

\* the header row of a statement's table
HeaderRow ==
    << Item("Date and Time", 30, 760), Item("Description", 150, 760),
       Item("Reference No", 400, 760), Item("Debit", 500, 760),
       Item("Credit", 580, 760), Item("Balance", 660, 760) >>

\* the y of the n-th row of a page
RowY(n) == 720 - 20 * n

\* the texts of the k-th row of a statement, different for every k
DateTimeOf(k) ==
    "2024-01-1" \o Digit(k)
        \o (IF k % 2 = 0 THEN " 10:0" \o Digit(k) \o " PM"
                         ELSE " 9:0" \o Digit(k) \o " AM")
DescriptionNames ==
    << "Cash In", "Send Money", "Bills Payment to Meralco, Inc", "Buy Load" >>
DescriptionOf(k) ==
    DescriptionNames[((k - 1) % Len(DescriptionNames)) + 1] \o " " \o Digit(k)
ReferenceOf(k) == "100000000000" \o Digit(k)
AmountOf(k) == Digit(k) \o "0.00"
BalanceOf(k) == "1" \o Digit(k) \o "00.50"

\* the fragments of the text columns of row k, with the whitespace fragments
\* the PDF holds between them, placed at height y
TextItems(k, y) ==
    << Item(DateTimeOf(k), 40, y), Item(" ", 130, y),
       Item(DescriptionOf(k), 160, y), Item(" ", 390, y),
       Item(ReferenceOf(k), 410, y) >>

\* the fragments of the amount columns of row k: a debit on odd rows, a
\* credit on even rows, and the balance
AmountItems(k, y) ==
    << Item(AmountOf(k), IF k % 2 = 1 THEN 510 ELSE 590, y),
       Item(BalanceOf(k), 670, y) >>

\* the kinds of row the generator lays out: a whole transaction row, a row
\* with its text columns only, a row with its date and amounts only
RowKinds == {"full", "text", "amounts"}

RowItems(kind, k, y) ==
    CASE kind = "full"    -> TextItems(k, y) \o AmountItems(k, y)
      [] kind = "text"    -> TextItems(k, y)
      [] kind = "amounts" -> <<Item(DateTimeOf(k), 40, y)>> \o AmountItems(k, y)

\* the rows of page p of the statement with the rows of the given kinds
PageRows(kinds, p) ==
    [r \in 1..MathMin(RowsPerPage, Len(kinds) - (p - 1) * RowsPerPage) |->
        RowItems(kinds[(p - 1) * RowsPerPage + r], (p - 1) * RowsPerPage + r,
                 RowY(r))]

\* the statement with the rows of the given kinds, RowsPerPage to a page,
\* under a header row on page 1 when withHeader
Statement(kinds, withHeader) ==
    [p \in 1..(IF kinds = <<>> THEN 1
               ELSE (Len(kinds) + RowsPerPage - 1) \div RowsPerPage) |->
        (IF p = 1 /\ withHeader THEN HeaderRow ELSE <<>>)
            \o Concat(PageRows(kinds, p))]

SeqsUpTo(S, n) == UNION {[1..m -> S] : m \in 0..n}

Statements ==
    {Statement(kinds, withHeader) :
        kinds \in SeqsUpTo(RowKinds, MaxRows), withHeader \in BOOLEAN}

-----------------------------------------------------------------------------
(* The parser *)

\* the parse() calls of the model
Calls == {1, 2}

NoCsv == <<>>

DecodeError == "Failed to parse PDF: decode error"

MismatchWarning ==
    "Warning: The number of header entries does not match the number of numeric entries."

NoHeaderWarning ==
    "Could not identify column header row. Using default positions."

\* the state after new GCashPDFParser(pdfData, password, {debug})
Constructed(doc, dbg) ==
    /\ pdfData = doc
    /\ debug = dbg
    /\ transactions = <<>>
    /\ pageTexts = <<>>
    /\ columnPositions = <<>>
    /\ numericEntries = <<>>
    /\ pc = [c \in Calls |-> "idle"]
    /\ pageNo = [c \in Calls |-> 0]
    /\ headerEntries = [c \in Calls |-> <<>>]
    /\ result = [c \in Calls |-> <<>>]
    /\ console = {}
    /\ csv = NoCsv
    /\ rowLog = <<>>

Init == \E doc \in Statements, dbg \in BOOLEAN : Constructed(doc, dbg)

\* parse() is called: it runs to its first await, of the loading task
StartParse(c) ==
    /\ pc[c] = "idle"
    /\ pc' = [pc EXCEPT ![c] = "getDocument"]
    /\ UNCHANGED <<pdfData, debug, transactions, pageTexts, columnPositions,
                   numericEntries, pageNo, headerEntries, result, console,
                   csv, rowLog>>

\* Settle with the warning written whether or not debug is set
Settle_WarnsWithoutDebug(c, headers, numerics, mergedTransactions, logged) ==
    /\ headerEntries' = [headerEntries EXCEPT ![c] = headers]
    /\ console' = IF Len(headers) # Len(numerics)
                  THEN logged \cup {MismatchWarning}
                  ELSE logged
    /\ transactions' = mergedTransactions
    /\ result' = [result EXCEPT ![c] = [ok |-> TRUE, value |-> mergedTransactions]]
    /\ pc' = [pc EXCEPT ![c] = "done"]

\* Settle with a mismatch thrown as an error
Settle_ThrowsOnMismatch(c, headers, numerics, mergedTransactions, logged) ==
    /\ headerEntries' = [headerEntries EXCEPT ![c] = headers]
    /\ console' = logged
    /\ transactions' = transactions
    /\ IF Len(headers) # Len(numerics)
       THEN /\ result' = [result EXCEPT ![c] =
                             [ok |-> FALSE, error |-> "Failed to parse PDF: mismatch"]]
            /\ pc' = [pc EXCEPT ![c] = "failed"]
       ELSE /\ result' = [result EXCEPT ![c] =
                             [ok |-> TRUE, value |-> mergedTransactions]]
            /\ pc' = [pc EXCEPT ![c] = "done"]

\* the end of parse(): the warning, this.transactions and the return
Settle(c, headers, numerics, mergedTransactions, logged) ==
    /\ headerEntries' = [headerEntries EXCEPT ![c] = headers]
    /\ console' = IF Len(headers) # Len(numerics) /\ debug
                  THEN logged \cup {MismatchWarning}
                  ELSE logged
    /\ transactions' = mergedTransactions
    /\ result' = [result EXCEPT ![c] = [ok |-> TRUE, value |-> mergedTransactions]]
    /\ pc' = [pc EXCEPT ![c] = "done"]

\* the merge of parse()
Merge(c, headers, numerics, logged) ==
    Settle(c, headers, numerics, MergeEntries(headers, numerics), logged)

\* what parse() does once the loop over the pages has ended
Finish(c, texts, numerics, logged) ==
    Merge(c, extractHeaderEntriesFromPageTexts(texts), numerics, logged)

\* DocumentLoaded with this.numericEntries left as the last call left it
DocumentLoaded_KeepsNumerics(c) ==
    /\ pc[c] = "getDocument"
    /\ pageTexts' = <<>>
    /\ numericEntries' = numericEntries
    /\ rowLog' = rowLog
    /\ pageNo' = [pageNo EXCEPT ![c] = 1]
    /\ transactions' = <<>>
    /\ pc' = [pc EXCEPT ![c] = "getPage"]
    /\ UNCHANGED <<headerEntries, result, console>>
    /\ UNCHANGED <<pdfData, debug, columnPositions, csv>>

\* the document is decoded: the accumulators are reset and the loop starts
DocumentLoaded(c) ==
    /\ pc[c] = "getDocument"
    /\ pageTexts' = <<>>
    /\ numericEntries' = <<>>
    /\ rowLog' = <<>>
    /\ pageNo' = [pageNo EXCEPT ![c] = 1]
    /\ IF 1 <= Len(pdfData)
       THEN /\ transactions' = <<>>
            /\ pc' = [pc EXCEPT ![c] = "getPage"]
            /\ UNCHANGED <<headerEntries, result, console>>
       ELSE Finish(c, <<>>, <<>>, console)
    /\ UNCHANGED <<pdfData, debug, columnPositions, csv>>

\* page i is decoded: parse() awaits its text content
PageLoaded(c) ==
    /\ pc[c] = "getPage"
    /\ pc' = [pc EXCEPT ![c] = "getTextContent"]
    /\ UNCHANGED <<pdfData, debug, transactions, pageTexts, columnPositions,
                   numericEntries, pageNo, headerEntries, result, console,
                   csv, rowLog>>

\* the clustered rows of a page as the history keeps them: the row and the
\* entries the loop pushed for it
LoggedRows(page, clusters, cols, count) ==
    [n \in 1..Len(clusters) |->
        [page    |-> page,
         line    |-> clusters[n],
         entries |-> LineEntries(clusters[n], cols,
                         Len(ExtractLines(SubSeq(clusters, 1, n - 1), cols,
                                          <<>>)) + count)]]

\* the end of the loop body: the loop goes on to the next page, or ends
AfterPage(c, i, texts, numerics, logged) ==
    /\ pageTexts' = texts
    /\ numericEntries' = numerics
    /\ pageNo' = [pageNo EXCEPT ![c] = i + 1]
    /\ IF i + 1 <= Len(pdfData)
       THEN /\ pc' = [pc EXCEPT ![c] = "getPage"]
            /\ console' = logged
            /\ UNCHANGED <<transactions, headerEntries, result>>
       ELSE Finish(c, texts, numerics, logged)

\* PageBody with the page's text joined after the sort by y of the
\* numeric extraction
PageBody_TextAfterSort(c, i, items, cols) ==
    /\ columnPositions' = cols
    /\ rowLog' = rowLog \o LoggedRows(i, Clusters(items), cols, Len(numericEntries))
    /\ AfterPage(c, i,
                 Append(pageTexts, Join(Strs(SortAscBy(items, NegY)), " ")),
                 extractNumericEntriesFromLineItems(items, cols, numericEntries),
                 IF i = 1 /\ ~HasHeaderRow(items) /\ debug
                 THEN console \cup {NoHeaderWarning}
                 ELSE console)

\* the loop body for page i with its items, given the Column Model in use
PageBody(c, i, items, cols) ==
    /\ columnPositions' = cols
    /\ rowLog' = rowLog \o LoggedRows(i, Clusters(items), cols, Len(numericEntries))
    /\ AfterPage(c, i,
                 Append(pageTexts, Join(Strs(items), " ")),
                 extractNumericEntriesFromLineItems(items, cols, numericEntries),
                 IF i = 1 /\ ~HasHeaderRow(items) /\ debug
                 THEN console \cup {NoHeaderWarning}
                 ELSE console)

\* TextContentLoaded with the Column Model built on every page
TextContentLoaded_EveryPage(c) ==
    /\ pc[c] = "getTextContent"
    /\ PageBody(c, pageNo[c], pdfData[pageNo[c]],
                computeColumnBoundaries(
                    identifyColumnPositions(pdfData[pageNo[c]])))
    /\ UNCHANGED <<pdfData, debug, csv>>

\* the text content of page i arrives: the body of the loop and, after the
\* last page, the rest of parse()
TextContentLoaded(c) ==
    /\ pc[c] = "getTextContent"
    /\ PageBody(c, pageNo[c], pdfData[pageNo[c]],
                IF pageNo[c] = 1
                THEN computeColumnBoundaries(
                         identifyColumnPositions(pdfData[pageNo[c]]))
                ELSE columnPositions)
    /\ UNCHANGED <<pdfData, debug, csv>>

\* an awaited decode rejects: the catch wraps the error and parse() rejects
DecodeFails(c) ==
    /\ pc[c] \in {"getDocument", "getPage", "getTextContent"}
    /\ pc' = [pc EXCEPT ![c] = "failed"]
    /\ result' = [result EXCEPT ![c] = [ok |-> FALSE, error |-> DecodeError]]
    /\ UNCHANGED <<pdfData, debug, transactions, pageTexts, columnPositions,
                   numericEntries, pageNo, headerEntries, console, csv, rowLog>>

\* toCSV() is called once parse() has settled
ToCSV ==
    /\ \E c \in Calls : pc[c] \in {"done", "failed"}
    /\ \A c \in Calls : pc[c] \in {"idle", "done", "failed"}
    /\ csv' = <<toCSV(transactions)>>
    /\ UNCHANGED <<pdfData, debug, transactions, pageTexts, columnPositions,
                   numericEntries, pc, pageNo, headerEntries, result, console,
                   rowLog>>

\* one parse() call on a new parser, then toCSV()
Next ==
    \/ StartParse(1)
    \/ DocumentLoaded(1)
    \/ PageLoaded(1)
    \/ TextContentLoaded(1)
    \/ DecodeFails(1)
    \/ ToCSV

Spec == Init /\ [][Next]_vars

-----------------------------------------------------------------------------
(* One-row statements: a row put together from any of the fragments of the
   example transaction, with or without a summary marker in front and a
   header row above *)

\* the fragments of the example row, in extraction order: the date and
\* time, the description and the reference number with the whitespace
\* fragments between them, and the amounts under Debit, Credit and Balance
ExampleRow ==
    << <<Item("2024-01-15 10:30 AM", 40, 700)>>,
       <<Item(" ", 130, 700), Item("Bill Payment to Meralco", 160, 700),
         Item(" ", 390, 700)>>,
       <<Item("1234567890123", 410, 700)>>,
       <<Item("500.00", 500, 700)>>,
       <<Item("", 580, 700)>>,
       <<Item("1200.50", 660, 700)>> >>

\* the markers of the rows the numeric extraction skips, and none
RowMarkers ==
    {"", "Date and Time", "STARTING BALANCE", "ENDING BALANCE", "Total Debit",
     "Total Credit"}

\* the parts of the example row whose index is in picked
PickedParts(picked) ==
    LET IsPicked(i) == i \in picked
    IN  Concat([n \in 1..Cardinality(picked) |->
                   ExampleRow[SelectSeq([i \in 1..Len(ExampleRow) |-> i],
                                        IsPicked)[n]]])

\* the one-page statement with that row
RowStatement(picked, marker, withHeader) ==
    << (IF withHeader THEN HeaderRow ELSE <<>>)
       \o (IF marker = "" THEN <<>> ELSE <<Item(marker, 10, 700)>>)
       \o PickedParts(picked) >>

RowStatements ==
    {RowStatement(picked, marker, withHeader) :
        picked \in SUBSET (1..Len(ExampleRow)), marker \in RowMarkers,
        withHeader \in BOOLEAN}

InitRow == \E doc \in RowStatements : Constructed(doc, FALSE)

SpecRow == InitRow /\ [][Next]_vars

-----------------------------------------------------------------------------
(* Statements for the Column Model: page 1 holds any of a set of header
   fragments, in an order that is not that of their x, above one row *)

\* header fragments as a PDF may hold them: out of x order, one a line
\* lower than the others, one two units off, two names fused in one
\* fragment, and a centre that makes a boundary fall on a half unit
HeaderPool ==
    << Item("Balance", 660, 760), Item("Date and Time", 30, 760),
       Item("Debit", 500, 761), Item("Description", 150, 760),
       Item("Credit", 585, 760), Item("Reference No", 400, 762),
       Item("Debit Credit", 540, 760), Item(" Balance ", 700, 740) >>

PickedHeaders(picked) ==
    LET IsPicked(i) == i \in picked
    IN  [n \in 1..Cardinality(picked) |->
            HeaderPool[SelectSeq([i \in 1..Len(HeaderPool) |-> i], IsPicked)[n]]]

ColumnStatements ==
    {<<PickedHeaders(picked) \o RowItems("full", 1, 700)>> :
        picked \in SUBSET (1..Len(HeaderPool))}

InitCol == \E doc \in ColumnStatements, dbg \in BOOLEAN : Constructed(doc, dbg)

SpecCol == InitCol /\ [][Next]_vars

-----------------------------------------------------------------------------
(* Statements for the header fields: one transaction row whose date and
   time, description and reference number are held in fragments of several
   shapes, the row on one page or broken over two *)

\* the date and time as one fragment, as two, as two with an empty fragment
\* between them, and with a tab in it
DateShapes ==
    { <<"2024-01-15 10:30 AM">>,
      <<"2024-01-15", "10:30 AM">>,
      <<"2024-01-15", "", "10:30 AM">>,
      <<"2024-01-15\t10:30", "AM">> }

\* the description as one fragment, as two words, and as two words with a
\* whitespace fragment between them
DescriptionShapes ==
    { <<"Send Money">>, <<"Send", "Money">>, <<"Send", " ", "Money">> }

\* a reference number of 13 digits, runs of 14 and of 12 digits, and 13
\* digits with a letter after them
ReferenceShapes ==
    { "1234567890123", "12345678901234", "123456789012", "1234567890123X" }

\* the fragments with the given texts, left to right from x0 at height y
Fragments(strs, x0, y) ==
    [i \in 1..Len(strs) |-> Item(strs[i], x0 + 20 * (i - 1), y)]

\* the row's fragments in extraction order: the texts, then the amounts
TextRow(date, description, reference) ==
    Fragments(date, 40, 700)
        \o <<Item(" ", 130, 700)>>
        \o Fragments(description, 160, 700)
        \o <<Item(" ", 390, 700), Item(reference, 410, 700),
             Item("500.00", 500, 700), Item("1200.50", 660, 700)>>

\* the statement with that row: on one page, or with the row's first
\* fragment at the end of page 1 and the rest on page 2
TextStatement(row, broken) ==
    IF broken THEN << <<Head(row)>>, Tail(row) >> ELSE << row >>

TextStatements ==
    {TextStatement(TextRow(date, description, reference), broken) :
        date \in DateShapes, description \in DescriptionShapes,
        reference \in ReferenceShapes, broken \in BOOLEAN}

InitText == \E doc \in TextStatements : Constructed(doc, FALSE)

SpecText == InitText /\ [][Next]_vars

-----------------------------------------------------------------------------
(* Statements for the order of the rows: whole rows and rows with their
   text only, each page holding its rows top row first or bottom row first *)

Reverse(seq) == [i \in 1..Len(seq) |-> seq[Len(seq) + 1 - i]]

\* the statement with the rows of the given kinds whose pages hold their
\* rows bottom row first when bottomUp
OrderedStatement(kinds, withHeader, bottomUp) ==
    [p \in 1..(IF kinds = <<>> THEN 1
               ELSE (Len(kinds) + RowsPerPage - 1) \div RowsPerPage) |->
        (IF p = 1 /\ withHeader THEN HeaderRow ELSE <<>>)
            \o Concat(IF bottomUp THEN Reverse(PageRows(kinds, p))
                                  ELSE PageRows(kinds, p))]

OrderedStatements ==
    {OrderedStatement(kinds, withHeader, bottomUp) :
        kinds \in SeqsUpTo({"full", "text"}, MaxRows),
        withHeader \in BOOLEAN, bottomUp \in BOOLEAN}

InitOrder == \E doc \in OrderedStatements : Constructed(doc, FALSE)

SpecOrder == InitOrder /\ [][Next]_vars

-----------------------------------------------------------------------------
(* Two parse() calls on one parser *)

\* statements of one page and of several, with rows of every kind
TwiceStatements ==
    {Statement(kinds, withHeader) :
        kinds \in { <<"full">>, <<"full", "text", "full">>,
                    <<"amounts", "full", "full", "full">> },
        withHeader \in BOOLEAN}

InitTwice == \E doc \in TwiceStatements, dbg \in BOOLEAN : Constructed(doc, dbg)

\* parse() is called again once the first call has settled
Reparse ==
    /\ pc[1] \in {"done", "failed"}
    /\ StartParse(2)

\* a parse() call, a second one after it, and toCSV()
NextReparse ==
    \/ StartParse(1)
    \/ Reparse
    \/ \E c \in Calls :
           \/ DocumentLoaded(c)
           \/ PageLoaded(c)
           \/ TextContentLoaded(c)
           \/ DecodeFails(c)
    \/ ToCSV

SpecReparse == InitTwice /\ [][NextReparse]_vars

\* two parse() calls, the second started at any time, and toCSV()
NextOverlap ==
    \/ \E c \in Calls :
           \/ StartParse(c)
           \/ DocumentLoaded(c)
           \/ PageLoaded(c)
           \/ TextContentLoaded(c)
           \/ DecodeFails(c)
    \/ ToCSV

SpecOverlap == InitTwice /\ [][NextOverlap]_vars

\* What one parse() call run alone computes from a document

\* this.pageTexts after the loop
PageTextsOf(doc) == [p \in 1..Len(doc) |-> Join(Strs(doc[p]), " ")]

\* this.columnPositions after page 1
ColumnModelOf(doc) == computeColumnBoundaries(identifyColumnPositions(doc[1]))

\* this.numericEntries after pages p and on, given those of the pages before
RECURSIVE NumericsOver(_, _, _, _)
NumericsOver(doc, p, cols, entries) ==
    IF p > Len(doc) THEN entries
    ELSE NumericsOver(doc, p + 1, cols,
             extractNumericEntriesFromLineItems(doc[p], cols, entries))

\* this.numericEntries after the loop
NumericsOf(doc) == NumericsOver(doc, 1, ColumnModelOf(doc), <<>>)

\* the list parse() returns
TransactionsOf(doc) ==
    MergeEntries(extractHeaderEntriesFromPageTexts(PageTextsOf(doc)),
                 NumericsOf(doc))

-----------------------------------------------------------------------------
(* Pages for the clustering: up to MaxFragments fragments, each at one of a
   few heights that are less than, exactly and more than the tolerance
   apart, in any extraction order *)

MaxFragments == 3

\* heights 4, 5, 8 and 10 units below the first
FragmentYs == {700, 696, 695, 692, 690}

FragmentXs == {20, 60}

\* a fragment's text tells its place in the extraction order
FragmentStr(i) == SubSeq("abcdefgh", i, i)

ClusterPages ==
    UNION {{[i \in 1..n |-> Item(FragmentStr(i), xs[i], ys[i])] :
               xs \in [1..n -> FragmentXs], ys \in [1..n -> FragmentYs]} :
           n \in 1..MaxFragments}

InitCluster == \E page \in ClusterPages : Constructed(<<page>>, FALSE)

SpecCluster == InitCluster /\ [][Next]_vars

-----------------------------------------------------------------------------
(* Properties *)

Shorter(a, b) == IF Len(a) <= Len(b) THEN Len(a) ELSE Len(b)

HeaderPart(r) ==
    [dateTime |-> r.dateTime, description |-> r.description,
     referenceNo |-> r.referenceNo]

NumericPart(r) == [debit |-> r.debit, credit |-> r.credit, balance |-> r.balance]

\* C1: when a parse() call has returned, the list it returned, which is
\* this.transactions, is as long as the shorter of the header records and
\* the numeric records of the call.
C1_MergeLength ==
    \A c \in Calls :
        pc[c] = "done" =>
            /\ result[c].ok
            /\ result[c].value = transactions
            /\ Len(transactions) = Shorter(headerEntries[c], numericEntries)

\* a parse that ended with more header records than numeric records
C1_Witness ==
    /\ pc[1] = "done"
    /\ Len(headerEntries[1]) = 3
    /\ Len(numericEntries) = 1
    /\ Len(result[1].value) = 1

\* C2: transaction i of the returned list has the three header fields of
\* header record i and the three numeric fields of numeric record i,
\* unchanged.
C2_MergeByPosition ==
    \A c \in Calls :
        pc[c] = "done" =>
            \A i \in 1..Len(result[c].value) :
                /\ i <= Len(headerEntries[c])
                /\ i <= Len(numericEntries)
                /\ HeaderPart(result[c].value[i]) = HeaderPart(headerEntries[c][i])
                /\ NumericPart(result[c].value[i]) = NumericPart(numericEntries[i])
                /\ DOMAIN result[c].value[i] =
                       {"dateTime", "description", "referenceNo", "debit",
                        "credit", "balance"}

\* a parse whose first transaction pairs the text of the statement's first
\* row with the amounts of its second row
C2_Witness ==
    /\ pc[1] = "done"
    /\ Len(result[1].value) >= 2
    /\ result[1].value[1].dateTime = DateTimeOf(1)
    /\ result[1].value[1].balance = BalanceOf(2)
    /\ result[1].value[1].credit = AmountOf(2)

\* a parse that ended with 5 header records and 3 numeric records
FiveAndThree(c) ==
    /\ pc[c] = "done"
    /\ Len(headerEntries[c]) = 5
    /\ Len(numericEntries) = 3

FirstThreeMerged(c) ==
    /\ Len(result[c].value) = 3
    /\ \A i \in 1..3 :
           /\ HeaderPart(result[c].value[i]) = HeaderPart(headerEntries[c][i])
           /\ NumericPart(result[c].value[i]) = NumericPart(numericEntries[i])

\* C3 as claimed: 5 header records and 3 numeric records give the 3
\* transactions of the first 3 header records and the 3 numeric records,
\* and the mismatch warning is written.
C3_Original ==
    \A c \in Calls :
        FiveAndThree(c) => FirstThreeMerged(c) /\ MismatchWarning \in console

\* C3: 5 header records and 3 numeric records give the 3 transactions of
\* the first 3 header records and the 3 numeric records, and the mismatch
\* warning is written if and only if debug is set.
C3_FiveAndThree ==
    \A c \in Calls :
        FiveAndThree(c) =>
            /\ FirstThreeMerged(c)
            /\ MismatchWarning \in console <=> debug

C3_Witness == FiveAndThree(1) /\ debug /\ MismatchWarning \in console

\* C4: a call that has been through all the pages has returned, with the
\* list cut to the shorter of the two sequences, whether or not the counts
\* differ; and the mismatch warning has been written exactly when a call
\* has ended with different counts and debug is set.
C4_MismatchNotFatal ==
    /\ \A c \in Calls :
           pageNo[c] > Len(pdfData) =>
               /\ pc[c] = "done"
               /\ result[c].ok
               /\ Len(result[c].value) = Shorter(headerEntries[c], numericEntries)
    /\ MismatchWarning \in console <=>
           /\ debug
           /\ \E c \in Calls :
                  pc[c] = "done" /\ Len(headerEntries[c]) # Len(numericEntries)

\* a parse that ended with different counts, cut its list and warned
C4_Witness ==
    /\ pc[1] = "done"
    /\ Len(headerEntries[1]) = 2
    /\ Len(numericEntries) = 4
    /\ Len(result[1].value) = 2
    /\ MismatchWarning \in console

\* C5: the k-th numeric record and the k-th header record of a parse have
\* ordinal k, over all the pages.
C5_Ordinals ==
    /\ \A k \in 1..Len(numericEntries) : numericEntries[k].entryNo = k
    /\ \A c \in Calls :
           \A k \in 1..Len(headerEntries[c]) : headerEntries[c][k].entryNo = k

\* a parse whose second page gave a numeric record, numbered after those
\* of the first page
C5_Witness ==
    /\ pc[1] = "done"
    /\ Len(headerEntries[1]) >= 3
    /\ \E n \in 1..Len(rowLog) :
           /\ rowLog[n].page = 2
           /\ rowLog[n].entries # <<>>
           /\ rowLog[n].entries[1].entryNo = 3
           /\ numericEntries[3] = rowLog[n].entries[1]

\* C6: the columns of a Column Model are in ascending order of x; the first
\* starts at 0, the last has no end, and each ends where the next starts,
\* at the midpoint of the two centres (minX and maxX are doubled).
C6_ColumnPartition ==
    columnPositions # <<>> =>
        /\ columnPositions[1].minX = 0
        /\ columnPositions[Len(columnPositions)].maxX = POSITIVE_INFINITY
        /\ \A i \in 1..(Len(columnPositions) - 1) :
               /\ columnPositions[i].x <= columnPositions[i + 1].x
               /\ columnPositions[i].maxX = columnPositions[i + 1].minX
               /\ columnPositions[i].maxX =
                      columnPositions[i].x + columnPositions[i + 1].x

\* a Column Model of three columns found in the page, not in the order in
\* which the page holds them, with a boundary on a half unit
C6_Witness ==
    /\ Len(columnPositions) = 3
    /\ columnPositions[1].name = "Debit"
    /\ columnPositions[2].name = "Credit"
    /\ columnPositions[3].name = "Balance"
    /\ columnPositions[1].maxX = 1085

SkipMarkers ==
    {"Date and Time", "STARTING BALANCE", "ENDING BALANCE", "Total Debit",
     "Total Credit"}

LoggedText(r) == Join(Strs(r.line), " ")

AllLogged(n) == [i \in 1..n |-> rowLog[i].entries]

\* C7: the numeric records are those of the clustered rows, and a row whose
\* text has no date and time, or holds one of the five markers, or is
\* blank, gave none.
C7_RowAdmission ==
    /\ numericEntries = Concat(AllLogged(Len(rowLog)))
    /\ \A n \in 1..Len(rowLog) :
           (\/ ~DateTimeTest(LoggedText(rowLog[n]))
            \/ \E marker \in SkipMarkers : Includes(LoggedText(rowLog[n]), marker)
            \/ Trim(LoggedText(rowLog[n])) = "")
               => rowLog[n].entries = <<>>

\* a row with STARTING BALANCE, a date and time and amounts in the numeric
\* columns, which gave no record
C7_Witness ==
    \E n \in 1..Len(rowLog) :
        /\ Includes(LoggedText(rowLog[n]), "STARTING BALANCE")
        /\ DateTimeTest(LoggedText(rowLog[n]))
        /\ \E i \in 1..Len(rowLog[n].line) :
               rowLog[n].line[i].str = "500.00" /\ rowLog[n].line[i].x = 500
        /\ rowLog[n].entries = <<>>
        /\ numericEntries = <<>>

ExampleText == "2024-01-15 10:30 AM   Bill Payment to Meralco   1234567890123"

ExampleTransaction ==
    [dateTime |-> "2024-01-15 10:30 AM", description |-> "Bill Payment to Meralco",
     referenceNo |-> "1234567890123", debit |-> "500.00", credit |-> "",
     balance |-> "1200.50"]

\* the page whose only row has the four fragments the scenario names
FourFragmentPage ==
    << Item("2024-01-15 10:30 AM", 40, 700), Item("500.00", 500, 700),
       Item("", 580, 700), Item("1200.50", 660, 700) >>

\* C8 as claimed: the one-page document whose single row has the fragments
\* "2024-01-15 10:30 AM", "500.00", "" and "1200.50" has the page text of
\* the scenario, and parse() returns the one transaction of the scenario.
C8_Original ==
    \A c \in Calls :
        pc[c] = "done" /\ pdfData = <<FourFragmentPage>> =>
            /\ pageTexts = <<ExampleText>>
            /\ result[c].value = <<ExampleTransaction>>

\* C8: for the one-page document whose single row has, in this order, the
\* fragments "2024-01-15 10:30 AM", " ", "Bill Payment to Meralco", " ",
\* "1234567890123", "500.00", "" and "1200.50", with or without the header
\* row above, the page text holds the text of the scenario and parse()
\* returns the one transaction of the scenario.
C8_Example ==
    \A c \in Calls, withHeader \in BOOLEAN :
        pc[c] = "done" /\ pdfData = RowStatement(1..Len(ExampleRow), "", withHeader)
            => /\ Len(pageTexts) = 1
               /\ Includes(pageTexts[1], ExampleText)
               /\ result[c].ok
               /\ result[c].value = <<ExampleTransaction>>

C8_Witness ==
    /\ pc[1] = "done"
    /\ pdfData = RowStatement(1..Len(ExampleRow), "", FALSE)
    /\ pageTexts = <<ExampleText \o " 500.00  1200.50">>
    /\ transactions = <<ExampleTransaction>>

\* C9: a call that has been through all the pages and found no numeric
\* record has returned the empty list, and toCSV() of an empty list is
\* "No transactions found".
C9_NoTransactions ==
    /\ \A c \in Calls :
           pageNo[c] > Len(pdfData) /\ numericEntries = <<>> =>
               /\ pc[c] = "done"
               /\ result[c] = [ok |-> TRUE, value |-> <<>>]
               /\ transactions = <<>>
    /\ csv # NoCsv /\ transactions = <<>> => csv = <<"No transactions found">>

\* a parse of a statement with header records and no numeric record, and
\* toCSV() after it
C9_Witness ==
    /\ pc[1] = "done"
    /\ numericEntries = <<>>
    /\ Len(headerEntries[1]) = 2
    /\ csv = <<"No transactions found">>

Quoted(s) == "\"" \o s \o "\""

QuotedFields(t) ==
    << Quoted(t.dateTime), Quoted(t.description), Quoted(t.referenceNo),
       Quoted(t.debit), Quoted(t.credit), Quoted(t.balance) >>

\* whether out, split on line breaks and then on commas, is the header line
\* and a line of six quoted fields for each transaction
SplitsBack(out, txs) ==
    /\ Len(Split(out, "\n")) = Len(txs) + 1
    /\ Split(out, "\n")[1] = CsvHeader
    /\ \A i \in 1..Len(txs) :
           Split(Split(out, "\n")[i + 1], ",") = QuotedFields(txs[i])

FieldsOf(t) ==
    {t.dateTime, t.description, t.referenceNo, t.debit, t.credit, t.balance}

\* C10 as claimed: toCSV() of a non-empty list splits back into the header
\* line and six quoted fields for each transaction.
C10_Original ==
    csv # NoCsv /\ transactions # <<>> => SplitsBack(csv[1], transactions)

\* C10: toCSV() of a non-empty list, none of whose fields holds a comma or
\* a line break, splits back into the header line and six quoted fields for
\* each transaction.
C10_CsvSplitsBack ==
    (/\ csv # NoCsv
     /\ transactions # <<>>
     /\ \A i \in 1..Len(transactions) :
            \A f \in FieldsOf(transactions[i]) :
                ~Includes(f, ",") /\ ~Includes(f, "\n") /\ ~Includes(f, "\r"))
        => SplitsBack(csv[1], transactions)

\* toCSV() of two transactions without a comma
C10_Witness ==
    /\ csv # NoCsv
    /\ Len(transactions) = 2
    /\ transactions[2].description = DescriptionOf(2)
    /\ SplitsBack(csv[1], transactions)

\* C11 (not what the code does): no returned transaction has three spaces
\* in a row in its description.
C11_NoSeparatorInDescription ==
    \A c \in Calls :
        pc[c] = "done" =>
            \A i \in 1..Len(result[c].value) :
                ~Includes(result[c].value[i].description, "   ")

\* "YYYY-MM-DD H:MM AM" or "YYYY-MM-DD HH:MM AM", or PM, with one space after
\* the date and one before AM or PM
LiteralDateTime(s) ==
    /\ DigitsAt(s, 1, 4)
    /\ CharAt(s, 5) = "-"
    /\ DigitsAt(s, 6, 2)
    /\ CharAt(s, 8) = "-"
    /\ DigitsAt(s, 9, 2)
    /\ CharAt(s, 11) = " "
    /\ \E h \in {1, 2} :
           /\ Len(s) = 17 + h
           /\ DigitsAt(s, 12, h)
           /\ CharAt(s, 12 + h) = ":"
           /\ DigitsAt(s, 13 + h, 2)
           /\ CharAt(s, 15 + h) = " "
           /\ CharAt(s, 16 + h) \in {"A", "P"}
           /\ CharAt(s, 17 + h) = "M"

\* C12 (not what the code does): the dateTime of every returned transaction
\* is a date, one space, a time, one space and AM or PM.
C12_LiteralDateTime ==
    \A c \in Calls :
        pc[c] = "done" =>
            \A i \in 1..Len(result[c].value) :
                LiteralDateTime(result[c].value[i].dateTime)

\* C13: the referenceNo of every returned transaction is 13 digits.
C13_ThirteenDigits ==
    \A c \in Calls :
        pc[c] = "done" =>
            \A i \in 1..Len(result[c].value) :
                /\ Len(result[c].value[i].referenceNo) = 13
                /\ DigitsAt(result[c].value[i].referenceNo, 1, 13)

\* a transaction whose reference number is the first 13 of a run of 14
\* digits in the page text
C13_Witness ==
    /\ pc[1] = "done"
    /\ Len(pageTexts) = 1
    /\ Includes(pageTexts[1], "   12345678901234 ")
    /\ Len(result[1].value) = 1
    /\ result[1].value[1].referenceNo = "1234567890123"

\* the transaction that row k of a statement shows
RowTransaction(k) ==
    [dateTime |-> DateTimeOf(k), description |-> DescriptionOf(k),
     referenceNo |-> ReferenceOf(k),
     debit |-> IF k % 2 = 1 THEN AmountOf(k) ELSE "",
     credit |-> IF k % 2 = 1 THEN "" ELSE AmountOf(k),
     balance |-> BalanceOf(k)]

\* the transactions of the whole rows among the rows of the given kinds, in
\* row order
WholeRows(kinds) ==
    LET IsWhole(k) == kinds[k] = "full"
    IN  [n \in 1..Cardinality({k \in 1..Len(kinds) : kinds[k] = "full"}) |->
            RowTransaction(SelectSeq([k \in 1..Len(kinds) |-> k], IsWhole)[n])]

\* C14 as claimed: the returned list has one record for each row of the
\* table that the document holds whole, in row order: pages in document
\* order, rows top to bottom within a page.
C14_Original ==
    \A c \in Calls :
        pc[c] = "done" =>
            \A kinds \in SeqsUpTo({"full", "text"}, MaxRows) :
                \A withHeader, bottomUp \in BOOLEAN :
                    pdfData = OrderedStatement(kinds, withHeader, bottomUp)
                        => result[c].value = WholeRows(kinds)

\* C14: for a statement all of whose rows are whole and whose pages hold
\* their rows top row first, the returned list has one record for each row,
\* in row order: pages in document order, rows top to bottom within a page.
C14_RowOrder ==
    \A c \in Calls :
        pc[c] = "done" =>
            \A kinds \in SeqsUpTo({"full"}, MaxRows) :
                \A withHeader \in BOOLEAN :
                    pdfData = OrderedStatement(kinds, withHeader, FALSE)
                        => result[c].value = WholeRows(kinds)

\* a parse of a statement of three whole rows on two pages
C14_Witness ==
    /\ pc[1] = "done"
    /\ Len(pdfData) = 2
    /\ pdfData = OrderedStatement(<<"full", "full", "full">>, TRUE, FALSE)
    /\ result[1].value = <<RowTransaction(1), RowTransaction(2), RowTransaction(3)>>

\* the call whose accumulators the parser holds, when no call is running:
\* the second if it was made, else the first
LastCall == IF pc[2] = "idle" THEN 1 ELSE 2

\* C15: a parse() call made when no other is running returns the list that
\* a call alone computes from the document, whatever calls came before, so
\* that two successful calls return the same list; and after it the
\* transactions, the page texts and the numeric records are those of that
\* call alone.
C15_FromScratch ==
    /\ \A c \in Calls :
           pc[c] = "done" =>
               result[c] = [ok |-> TRUE, value |-> TransactionsOf(pdfData)]
    /\ pc[1] = "done" /\ pc[2] = "done" => result[2] = result[1]
    /\ pc[LastCall] = "done" =>
           /\ transactions = TransactionsOf(pdfData)
           /\ pageTexts = PageTextsOf(pdfData)
           /\ numericEntries = NumericsOf(pdfData)

\* a second parse of a statement of two pages after a first that succeeded
C15_Witness ==
    /\ pc[1] = "done"
    /\ pc[2] = "done"
    /\ Len(pdfData) = 2
    /\ Len(pageTexts) = 2
    /\ Len(numericEntries) = 2
    /\ Len(result[2].value) = 2
    /\ Len(headerEntries[2]) = 3

\* C16 (not what the code does): each of two parse() calls on a parser,
\* overlapping or not, returns the list that a call alone computes from the
\* document.
C16_CallsIndependent ==
    \A c \in Calls :
        pc[c] = "done" =>
            result[c] = [ok |-> TRUE, value |-> TransactionsOf(pdfData)]

\* C17 (not what the code does): when the last parse() call has failed, it
\* has thrown the wrapped error and returned no list, getTransactions()
\* gives no transaction and toCSV() gives "No transactions found".
C17_NothingAfterFailure ==
    pc[LastCall] = "failed" =>
        /\ result[LastCall] = [ok |-> FALSE, error |-> DecodeError]
        /\ transactions = <<>>
        /\ toCSV(transactions) = "No transactions found"

\* the fallback Column set with its midpoint boundaries (minX and maxX are
\* doubled)
FallbackModel ==
    << [name |-> "Date and Time", x |-> 0,   minX |-> 0,    maxX |-> 150],
       [name |-> "Description",   x |-> 150, minX |-> 150,  maxX |-> 550],
       [name |-> "Reference No",  x |-> 400, minX |-> 550,  maxX |-> 900],
       [name |-> "Debit",         x |-> 500, minX |-> 900,  maxX |-> 1080],
       [name |-> "Credit",        x |-> 580, minX |-> 1080, maxX |-> 1240],
       [name |-> "Balance",       x |-> 660, minX |-> 1240,
        maxX |-> POSITIVE_INFINITY] >>

\* whether some fragment holds one of the given names
SomeFragmentNames(items, names) ==
    \E i \in 1..Len(items) : \E name \in names : Includes(items[i].str, name)

\* the names by which the code detects a header row
DetectionNames == {"Date and Time", "Reference No", "Debit", "Credit", "Balance"}

SixNames ==
    {"Date and Time", "Description", "Reference No", "Debit", "Credit", "Balance"}

\* C18: once page 1 has been processed and no header row was detected in
\* it, the parse has not failed and the Column Model is the fallback set
\* with its midpoint boundaries; and the Column Model is the fallback set
\* only then.
C18_Fallback ==
    /\ pageNo[1] > 1 /\ ~SomeFragmentNames(pdfData[1], DetectionNames) =>
           /\ pc[1] # "failed"
           /\ columnPositions = FallbackModel
    /\ columnPositions = FallbackModel =>
           ~SomeFragmentNames(pdfData[1], DetectionNames)

\* a parse of a page that holds no header fragment at all
C18_Witness ==
    /\ pc[1] = "done"
    /\ result[1].ok
    /\ ~SomeFragmentNames(pdfData[1], SixNames)
    /\ columnPositions = FallbackModel
    /\ Len(result[1].value) = 1

\* the index of the first fragment that holds one of the six names
FirstNamed(items) ==
    Min({i \in 1..Len(items) :
            \E name \in SixNames : Includes(items[i].str, name)})

\* C19 (not what the code does): once page 1 has been processed, the Column
\* Model is the fallback set if and only if no fragment of page 1 holds one
\* of the six names, and otherwise it is built from the row of the first
\* fragment that holds one of the six.
C19_SixNames ==
    pageNo[1] > 1 =>
        IF SomeFragmentNames(pdfData[1], SixNames)
        THEN columnPositions =
                 computeColumnBoundaries(
                     ColumnsOf(HeaderItems(pdfData[1], FirstNamed(pdfData[1]))))
        ELSE columnPositions = FallbackModel

\* the numeric records pushed for the rows before row n of the history
LoggedBefore(n) == Len(Concat(AllLogged(n - 1)))

\* C20: the Column Model changes only in the step that processes page 1;
\* from then on it is the model built from page 1's fragments, and every
\* row, of page 1 and of the later pages, was assigned with it.
C20_BuiltOnce ==
    /\ [][columnPositions' # columnPositions
              => pageNo[1] = 1 /\ pageNo'[1] = 2]_vars
    /\ [](pageNo[1] > 1 =>
              /\ columnPositions = ColumnModelOf(pdfData)
              /\ \A n \in 1..Len(rowLog) :
                     rowLog[n].entries =
                         LineEntries(rowLog[n].line, columnPositions,
                                     LoggedBefore(n)))

\* a parse of two pages, the Column Model found in page 1's header row, with
\* a row of page 2 assigned
C20_Witness ==
    /\ pc[1] = "done"
    /\ Len(pdfData) = 2
    /\ Len(columnPositions) = 6
    /\ columnPositions[1].x = 30
    /\ \E n \in 1..Len(rowLog) :
           rowLog[n].page = 2 /\ rowLog[n].entries # <<>>

\* the clustered rows of the pages processed, in the order of the loop
Lines == [n \in 1..Len(rowLog) |-> rowLog[n].line]

Range(seq) == {seq[i] : i \in 1..Len(seq)}

Highest(S) == CHOOSE y \in S : \A z \in S : z <= y

\* the heights that start a row when heights are taken from the top: the
\* highest, then the highest of those more than 5 below it, and so on
RECURSIVE RowTops(_)
RowTops(S) ==
    IF S = {} THEN <<>>
    ELSE <<Highest(S)>> \o RowTops({y \in S : y < Highest(S) - 5})

PageTops(items) == RowTops({items[i].y : i \in 1..Len(items)})

\* C21: the rows of a page are, from the top, one for each height that is
\* more than 5 below the first fragment of the row before; a row holds the
\* fragments from the height of its first fragment down to 5 below it, 5
\* included, whatever the distance to the row's other fragments; and each
\* row is in ascending order of x.
C21_Clustering ==
    pageNo[1] > 1 /\ Len(pdfData) = 1 =>
        /\ Len(Lines) = Len(PageTops(pdfData[1]))
        /\ \A k \in 1..Len(Lines) :
               /\ Range(Lines[k]) =
                      {item \in Range(pdfData[1]) :
                          /\ item.y <= PageTops(pdfData[1])[k]
                          /\ item.y >= PageTops(pdfData[1])[k] - 5}
               /\ \A i \in 1..(Len(Lines[k]) - 1) :
                      Lines[k][i].x <= Lines[k][i + 1].x

\* a page held bottom fragment first: the fragment 5 below the top one is in
\* its row, the one 8 below is not, though it is 3 below the row's second
C21_Witness ==
    /\ pageNo[1] > 1
    /\ pdfData = << << Item("a", 20, 692), Item("b", 20, 695),
                       Item("c", 60, 700) >> >>
    /\ Lines = << << Item("b", 20, 695), Item("c", 60, 700) >>,
                  << Item("a", 20, 692) >> >>

\* the clusters of a page before each is sorted by x: the first item of
\* each is the one inserted first
Inserted(items) == ClusterItems(SortAscBy(items, NegY), <<>>)

\* how many times x occurs in the rows
Occurrences(x, lines) ==
    Cardinality({ki \in (1..Len(lines)) \X (1..MaxFragments + 1) :
                    ki[2] <= Len(lines[ki[1]]) /\ lines[ki[1]][ki[2]] = x})

\* C28: after clustering every fragment of the page is in one row and in
\* one place of it, the rows hold nothing else, no row is empty, and every
\* fragment of a row is at most 5 below, and not above, the fragment
\* inserted first.
C28_Partition ==
    pageNo[1] > 1 /\ Len(pdfData) = 1 =>
        /\ \A i \in 1..Len(pdfData[1]) : Occurrences(pdfData[1][i], Lines) = 1
        /\ Len(Concat(Lines)) = Len(pdfData[1])
        /\ Len(Lines) = Len(Inserted(pdfData[1]))
        /\ \A k \in 1..Len(Lines) :
               /\ Lines[k] # <<>>
               /\ \A i \in 1..Len(Lines[k]) :
                      /\ Lines[k][i].y <= Inserted(pdfData[1])[k][1].y
                      /\ Lines[k][i].y >= Inserted(pdfData[1])[k][1].y - 5

\* a page of three fragments in two rows
C28_Witness ==
    /\ pageNo[1] > 1
    /\ pdfData = << << Item("a", 60, 696), Item("b", 20, 690),
                       Item("c", 20, 700) >> >>
    /\ Lines = << << Item("c", 20, 700), Item("a", 60, 696) >>,
                  << Item("b", 20, 690) >> >>

\* one top to bottom sweep: an item joins the row made last when it is
\* within 5 of that row's first item, and starts a row otherwise
RECURSIVE Sweep(_, _)
Sweep(sortedItems, rows) ==
    IF sortedItems = <<>> THEN rows
    ELSE Sweep(Tail(sortedItems),
             IF rows # <<>>
                /\ rows[Len(rows)][1].y - Head(sortedItems).y <= 5
             THEN [rows EXCEPT ![Len(rows)] = Append(@, Head(sortedItems))]
             ELSE Append(rows, <<Head(sortedItems)>>))

\* C29: the rows of a page are those of one top to bottom sweep; the first
\* fragments of the rows are each more than 5 below the one before; and the
\* rows one after the other, as inserted, are the fragments in descending
\* order of y.
C29_Sweep ==
    pageNo[1] > 1 /\ Len(pdfData) = 1 =>
        /\ Lines = SortEach(Sweep(SortAscBy(pdfData[1], NegY), <<>>))
        /\ Inserted(pdfData[1]) = Sweep(SortAscBy(pdfData[1], NegY), <<>>)
        /\ Concat(Inserted(pdfData[1])) = SortAscBy(pdfData[1], NegY)
        /\ \A j \in 1..(Len(Lines) - 1), k \in 1..Len(Lines) :
               j < k =>
                   /\ Inserted(pdfData[1])[j][1].y
                          > Inserted(pdfData[1])[k][1].y + 5
                   /\ \A a \in Range(Lines[j]), b \in Range(Lines[k]) : a.y > b.y

\* a page whose second fragment is above its first and whose third is 5
\* below the first: the sweep from the top gives two rows
C29_Witness ==
    /\ pageNo[1] > 1
    /\ pdfData = << << Item("a", 20, 695), Item("b", 20, 700),
                       Item("c", 20, 690) >> >>
    /\ Lines = << << Item("b", 20, 700), Item("a", 20, 695) >>,
                  << Item("c", 20, 690) >> >>

\* whether the row's text passes the two tests of the numeric extraction
PassesTests(text) ==
    /\ DateTimeTest(text)
    /\ \A marker \in SkipMarkers : ~Includes(text, marker)
    /\ Trim(text) # ""

\* the columns of the Column Model with the given name
Named(cols, name) == {i \in 1..Len(cols) : cols[i].name = name}

\* the split point of C22, doubled: the minX of the column named Debit if
\* there is one, and 500 if not
SplitAtDebit(cols) ==
    IF Named(cols, "Debit") # {} THEN cols[Min(Named(cols, "Debit"))].minX
    ELSE 1000

\* the fragments of the row at or right of the split point whose x is in
\* the interval of a column with the given name: their texts joined by
\* spaces, trimmed
FieldAt(line, cols, name, split) ==
    LET Lands(item) ==
            /\ 2 * item.x >= split
            /\ \E i \in Named(cols, name) :
                   2 * item.x >= cols[i].minX /\ 2 * item.x < cols[i].maxX
    IN  Trim(Join(Strs(SelectSeq(line, Lands)), " "))

\* the three fields of a row split at the given point
FieldsAt(line, cols, split) ==
    [debit   |-> FieldAt(line, cols, "Debit", split),
     credit  |-> FieldAt(line, cols, "Credit", split),
     balance |-> FieldAt(line, cols, "Balance", split)]

\* C22 (not what the code does): the numeric fields of every record are
\* those of the row split at the minX of the column named Debit whenever the
\* Column Model has one, and at 500 only when it has none.
C22_SplitAtDebit ==
    pageNo[1] > 1 =>
        \A n \in 1..Len(rowLog) :
            rowLog[n].entries # <<>> =>
                NumericPart(rowLog[n].entries[1]) =
                    FieldsAt(rowLog[n].line, columnPositions,
                             SplitAtDebit(columnPositions))

\* C23: the debit, credit and balance of every record are, for the columns
\* named Debit, Credit and Balance, the texts of the back fragments of the
\* row whose x is in the column's interval, in ascending order of x, joined
\* by single spaces and trimmed, and the empty string when there is none.
C23_Fields ==
    pageNo[1] > 1 =>
        \A n \in 1..Len(rowLog) :
            rowLog[n].entries # <<>> =>
                NumericPart(rowLog[n].entries[1]) =
                    FieldsAt(rowLog[n].line, columnPositions,
                             DebitX(columnPositions))

\* a row with two fragments in the interval of Balance and none in a
\* column named Debit or Credit
C23_Witness ==
    /\ pc[1] = "done"
    /\ Len(columnPositions) = 1
    /\ columnPositions[1].name = "Balance"
    /\ Len(numericEntries) = 1
    /\ NumericPart(numericEntries[1]) =
           [debit |-> "", credit |-> "", balance |-> "10.00 1100.50"]

\* C24 (not what the code does): the text of every back fragment of an
\* admitted row that is not blank is in one of the three fields of the
\* row's record, and in one only.
C24_NothingLost ==
    pageNo[1] > 1 =>
        \A n \in 1..Len(rowLog) :
            PassesTests(LoggedText(rowLog[n])) =>
                \A i \in 1..Len(rowLog[n].line) :
                    (/\ 2 * rowLog[n].line[i].x >= DebitX(columnPositions)
                     /\ Trim(rowLog[n].line[i].str) # "")
                        => /\ rowLog[n].entries # <<>>
                           /\ Cardinality(
                                  {f \in {"debit", "credit", "balance"} :
                                      Includes(rowLog[n].entries[1][f],
                                               Trim(rowLog[n].line[i].str))}) = 1

\* the rows among the first n clustered rows that gave a record
Emitted(n) == {m \in 1..n : rowLog[m].entries # <<>>}

\* C25: a row that passes the tests gives a record if and only if one of
\* its debit, credit and balance strings is not empty; a row with all three
\* empty takes no ordinal, the ordinal of a record being the number of rows
\* so far that gave one; and every record has a field that is not empty.
C25_EmitIffNonEmpty ==
    pageNo[1] > 1 =>
        /\ \A n \in 1..Len(rowLog) :
               /\ PassesTests(LoggedText(rowLog[n])) =>
                      (rowLog[n].entries # <<>>
                           <=> \E f \in {"debit", "credit", "balance"} :
                                   FieldsAt(rowLog[n].line, columnPositions,
                                            DebitX(columnPositions))[f] # "")
               /\ Len(rowLog[n].entries) <= 1
               /\ rowLog[n].entries # <<>> =>
                      rowLog[n].entries[1].entryNo = Cardinality(Emitted(n))
        /\ Len(numericEntries) = Cardinality(Emitted(Len(rowLog)))
        /\ \A i \in 1..Len(numericEntries) :
               /\ numericEntries[i].entryNo = i
               /\ \E f \in {"debit", "credit", "balance"} :
                      numericEntries[i][f] # ""

\* a row with a date and time and no amount, which gave no record, above a
\* row whose record has the ordinal 1
C25_Witness ==
    /\ pc[1] = "done"
    /\ \E n, m \in 1..Len(rowLog) :
           /\ n < m
           /\ PassesTests(LoggedText(rowLog[n]))
           /\ rowLog[n].entries = <<>>
           /\ rowLog[m].entries # <<>>
           /\ rowLog[m].entries[1].entryNo = 1

\* the text of a page: the texts of its fragments in the order of the
\* page's content stream, joined by single spaces
StreamText(page) == Join(Strs(page), " ")

\* C26: the page texts are, one for each page processed and in page order,
\* the fragment texts of the page joined by single spaces in the order of
\* extraction, whatever the y of the fragments; and the header records of a
\* finished parse are those found in these texts joined by a newline.
C26_TextBuffer ==
    pageNo[1] >= 1 =>
        /\ Len(pageTexts) = pageNo[1] - 1
        /\ \A p \in 1..Len(pageTexts) : pageTexts[p] = StreamText(pdfData[p])
        /\ pc[1] = "done" =>
               headerEntries[1] =
                   HeadersOf(Join([p \in 1..Len(pdfData) |->
                                      StreamText(pdfData[p])], "\n"))

\* a finished parse of two pages, the first of which holds a lower row
\* before a higher row in its stream
C26_Witness ==
    /\ pc[1] = "done"
    /\ Len(pageTexts) = 2
    /\ \E i, j \in 1..Len(pdfData[1]) :
           i < j /\ pdfData[1][i].y < pdfData[1][j].y
    /\ Len(headerEntries[1]) >= 2

\* the text the claimed shape gives for a header record: its dateTime,
\* three spaces, its description, three spaces, its referenceNo
LiteralShape(h) ==
    h.dateTime \o "   " \o h.description \o "   " \o h.referenceNo

\* C27 (not what the code does): every header record of a finished parse
\* was produced for text of the shape dateTime, exactly three space
\* characters, description, exactly three space characters, 13 digits, which
\* the scanned buffer therefore holds.
C27_ThreeSpaces ==
    pc[1] = "done" =>
        \A i \in 1..Len(headerEntries[1]) :
            Includes(Join(pageTexts, "\n"), LiteralShape(headerEntries[1][i]))

\* whether the transaction has the numeric fields of the record of a row
\* whose text holds the transaction's dateTime
FromOneRow(t) ==
    \E n \in 1..Len(rowLog) :
        /\ rowLog[n].entries # <<>>
        /\ NumericPart(rowLog[n].entries[1]) = NumericPart(t)
        /\ Includes(LoggedText(rowLog[n]), t.dateTime)

\* whether numeric record i is the record of a row whose text holds the
\* dateTime of header record i
SameRowAt(i) ==
    \E n \in 1..Len(rowLog) :
        /\ rowLog[n].entries = <<numericEntries[i]>>
        /\ Includes(LoggedText(rowLog[n]), headerEntries[1][i].dateTime)

\* C30 as claimed: when a parse ends with as many header records as numeric
\* records, numeric record i is the record of a row whose text holds the
\* dateTime of header record i, and every returned transaction has the
\* fields of the two.
C30_Original ==
    (pc[1] = "done" /\ Len(headerEntries[1]) = Len(numericEntries)) =>
        \A i \in 1..Len(result[1].value) :
            SameRowAt(i) /\ FromOneRow(result[1].value[i])

\* C30: the same, for a statement all of whose rows give one header record
\* and one numeric record and whose pages hold their rows top row first.
C30_SameRow ==
    (/\ pc[1] = "done"
     /\ Len(headerEntries[1]) = Len(numericEntries)
     /\ \E kinds \in SeqsUpTo({"full"}, MaxRows), withHeader \in BOOLEAN :
            pdfData = OrderedStatement(kinds, withHeader, FALSE)) =>
        /\ Len(result[1].value)
               = Len(rowLog) - (IF HasHeaderRow(pdfData[1]) THEN 1 ELSE 0)
        /\ \A i \in 1..Len(result[1].value) :
               SameRowAt(i) /\ FromOneRow(result[1].value[i])

\* a finished parse of three whole rows on two pages, top row first, with
\* three header records and three numeric records
C30_Witness ==
    /\ pc[1] = "done"
    /\ pdfData = OrderedStatement(<<"full", "full", "full">>, TRUE, FALSE)
    /\ Len(headerEntries[1]) = 3
    /\ Len(numericEntries) = 3
    /\ Len(result[1].value) = 3
    /\ \A i \in 1..3 : SameRowAt(i)

=============================================================================
